---- MODULE Spec2Model ----
(***************************************************************************)
(* Acquisition pipeline of the Imagimob streaming protocol example:        *)
(* the foreground loop of main.c, the ping-pong PDM/PCM capture of         *)
(* audio.c and the timer-paced polled channel serviced by main.c.          *)
(*                                                                         *)
(* A sample is represented by the index of the capture that produced it    *)
(* (0 = the zero-initialised contents), so a frame made of one capture is  *)
(* a frame whose samples are all equal and non-zero.                       *)
(***************************************************************************)
EXTENDS Integers, Sequences, FiniteSets, TLC

(* ------------------------------ bounds --------------------------------- *)
\* samples per audio frame (config.h FRAME_SIZE, scaled down)
FRAME_SIZE == 2
\* number of captures the DMA engine performs before the model stops it
MaxCaptures == 3
\* number of IMU timer ticks before the model stops the timer
MaxTicks == 2
\* radar samples per frame (radar.c:57 NUM_SAMPLES_PER_FRAME, scaled down)
NUM_SAMPLES_PER_FRAME == 1
\* interrupt requests raised before the model stops raising them
MaxIrqs == 3
\* steps of one initialisation that may fail in the same boot
MaxFailures == 1

(* ----------------------------- constants ------------------------------- *)
CY_RSLT_SUCCESS == 0
CY_RSLT_ERROR == 1
\* number of fallible steps of pdm_init: six in pdm_clock_init, then
\* cyhal_pdm_pcm_init and cyhal_pdm_pcm_start
PdmInitSteps == 8
\* sizeof(transmit_imu) is 4 * IMU_AXIS; one unit stands for the fixed size
ImuFrameLen == 1

\* samples radar_get_data copies (config.h RADAR_AXIS): the whole frame
RADAR_AXIS == NUM_SAMPLES_PER_FRAME

NULL == "NULL"
B0 == "audio_buffer0"
B1 == "audio_buffer1"
Buffers == {B0, B1}

VARIABLES
    IM_ENABLE_IMU,      \* build configuration: the IMU channel is compiled in
    hoisted,            \* build outcome: pdm_preprocessing_feed loads
                        \* full_rx_buffer once (TRUE) or at every element
    pc,                 \* position of main
    result,             \* main's local cy_rslt_t result
    pdm_status,         \* status returned by pdm_init
    pdm_pcm_flag,
    imu_flag,
    audio_buffer,       \* contents of audio_buffer0 / audio_buffer1
    active_rx_buffer,
    full_rx_buffer,
    dmaTarget,          \* buffer of the outstanding cyhal_pdm_pcm_read_async
    dmaPos,             \* samples the DMA engine has written of it
    capture,            \* index of the capture being written
    imuTimer,           \* the IMU timer is running
    index,              \* loop index of pdm_preprocessing_feed
    feedPtr,            \* full_rx_buffer as loaded on entry of the feed
    transmit_pdm,       \* main's transmit buffer
    \* ---- observation of the run (history) ----
    sent,               \* audio frames handed to protocol_send, in order
    imuSends,           \* protocol_send calls on the IMU channel
    imuLens,            \* set of lengths passed on the IMU channel
    imuTicks,           \* IMU timer interrupts so far
    imuOverrun,         \* some IMU tick found imu_flag already true
    imuLost,            \* IMU ticks that were not the first since the last clear
    imuSinceClear,      \* IMU ticks since the foreground last cleared imu_flag
    reading,            \* buffers read by the feed in progress
    passLog,            \* what the current pass of the loop has done
    anyOverrun,         \* some audio ISR found pdm_pcm_flag true
    overruns,           \* audio ISRs that found the flag true since the last clear
    swaps,              \* audio ISRs that found the flag false since the last clear
    stallPending,       \* frame pending when an overrun hit an idle foreground
    dropped,            \* captures that completed while that frame was pending
    pdmOutcome,         \* status each step of pdm_init returns if it is called
    pdmLog              \* steps of pdm_init that were called, in order

\* The timer-paced channels of dps.c and radar.c. main.c does not call them;
\* they are exercised by a foreground written after the polled-channel
\* service of main.c:134-141, one service per channel.
VARIABLES
    NDEBUG,             \* build configuration: CY_ASSERT is compiled out
    IM_ENABLE_RADAR,    \* build configuration: the radar sensor is compiled in
    served,             \* build configuration: channels the foreground serves
    upc,                \* position of that foreground
    dps_flag,
    radar_flag,
    dpsTimer,           \* dps_timer has been started
    radarTimer,         \* radar_timer has been started
    dpsOutcome,         \* status each step of dps_init returns if it is called
    dpsLog,             \* steps of dps_init that were called, in order
    dps_status,         \* status returned by dps_init
    radarOutcome,       \* the same for radar_init
    radarLog,
    radar_status,
    dps_data,           \* the caller's buffer passed to dps_get_data
    radar_data,         \* the caller's buffer passed to radar_get_data
    bgt60_buffer,
    pdmEvent,           \* the PDM/PCM async-complete event is enabled
    nvicPending,        \* interrupt requests that are pending
    nvicActive,         \* handlers that were entered and have not returned,
                        \* the running one first
    \* ---- observation of the run (history) ----
    irqCount,           \* interrupt requests raised so far
    lastRead,           \* channel, status and previous buffer of the last read
    drvSent             \* per channel: the frames handed to protocol_send

drvVars == <<NDEBUG, IM_ENABLE_RADAR, served, upc, dps_flag, radar_flag,
             dpsTimer, radarTimer, dpsOutcome, dpsLog, dps_status,
             radarOutcome, radarLog, radar_status, dps_data, radar_data,
             bgt60_buffer, pdmEvent, nvicPending, nvicActive, irqCount,
             lastRead, drvSent>>

mainVars == <<IM_ENABLE_IMU, hoisted, pc, result, pdm_status, pdm_pcm_flag,
          imu_flag, audio_buffer, active_rx_buffer, full_rx_buffer,
          dmaTarget, dmaPos, capture, imuTimer, index, feedPtr,
          transmit_pdm, sent, imuSends, imuLens, imuTicks, imuOverrun, imuLost,
          imuSinceClear,
          reading, passLog, anyOverrun, overruns, swaps, stallPending,
          dropped, pdmOutcome, pdmLog>>

vars == <<mainVars, drvVars>>

cfgVars == <<IM_ENABLE_IMU, hoisted>>
initHist == <<pdmOutcome, pdmLog>>
audioVars == <<pdm_pcm_flag, audio_buffer, active_rx_buffer, full_rx_buffer,
               dmaTarget, dmaPos, capture>>
audioHist == <<anyOverrun, overruns, swaps, stallPending, dropped>>
imuVars == <<imu_flag, imuTimer, imuTicks, imuOverrun, imuLost,
             imuSinceClear>>
fgData == <<index, feedPtr, transmit_pdm, reading>>
sinkVars == <<sent, imuSends, imuLens>>

ZeroFrame == [i \in 1..FRAME_SIZE |-> 0]
Uniform(k) == [i \in 1..FRAME_SIZE |-> k]
Min2(a, b) == IF a < b THEN a ELSE b

(* ------------------------------ Init ----------------------------------- *)
Channels == {"dps", "radar"}
IrqSources == {"pdm", "dps", "radar"}

\* number of fallible steps of dps_init and of radar_init
DpsInitSteps == 9
RadarInitSteps == 5

\* State of main.c and audio.c on entry of main after streaming_init and
\* protocol_init: statics are zero-initialised (flags false, pointers NULL,
\* buffers zero).
MainZero ==
    /\ pc = "pdm_init"
    /\ result = CY_RSLT_SUCCESS
    /\ pdm_status = CY_RSLT_SUCCESS
    /\ pdm_pcm_flag = FALSE
    /\ imu_flag = FALSE
    /\ audio_buffer = [b \in Buffers |-> ZeroFrame]
    /\ active_rx_buffer = NULL
    /\ full_rx_buffer = NULL
    /\ dmaTarget = NULL
    /\ dmaPos = 0
    /\ capture = 0
    /\ imuTimer = FALSE
    /\ index = 0
    /\ feedPtr = NULL
    /\ transmit_pdm = ZeroFrame
    /\ sent = <<>>
    /\ imuSends = 0
    /\ imuLens = {}
    /\ imuTicks = 0
    /\ imuOverrun = FALSE
    /\ imuLost = 0
    /\ imuSinceClear = 0
    /\ reading = {}
    /\ passLog = <<>>
    /\ anyOverrun = FALSE
    /\ overruns = 0
    /\ swaps = 0
    /\ stallPending = 0
    /\ dropped = {}
    /\ pdmOutcome = [i \in 1..PdmInitSteps |-> CY_RSLT_SUCCESS]
    /\ pdmLog = <<>>

\* State of dps.c and radar.c before anything is called: zero-initialised
\* statics, no timer running, no interrupt enabled.
DrvZero ==
    /\ dps_flag = FALSE
    /\ radar_flag = FALSE
    /\ dpsTimer = FALSE
    /\ radarTimer = FALSE
    /\ dpsOutcome = [i \in 1..DpsInitSteps |-> CY_RSLT_SUCCESS]
    /\ dpsLog = <<>>
    /\ dps_status = CY_RSLT_SUCCESS
    /\ radarOutcome = [i \in 1..RadarInitSteps |-> CY_RSLT_SUCCESS]
    /\ radarLog = <<>>
    /\ radar_status = CY_RSLT_SUCCESS
    /\ dps_data = <<0, 0>>
    /\ radar_data = [i \in 1..RADAR_AXIS |-> 0]
    /\ bgt60_buffer = [i \in 1..NUM_SAMPLES_PER_FRAME |-> 0]
    /\ pdmEvent = FALSE
    /\ nvicPending = {}
    /\ nvicActive = <<>>
    /\ irqCount = 0
    /\ lastRead = [chan |-> "none", status |-> CY_RSLT_SUCCESS, before |-> <<>>]
    /\ drvSent = [c \in Channels |-> <<>>]

\* the build of main.c: no foreground serves the dps.c and radar.c channels
DrvIdle ==
    /\ DrvZero
    /\ NDEBUG = FALSE
    /\ IM_ENABLE_RADAR = FALSE
    /\ served = {}
    /\ upc = "none"

Init ==
    /\ IM_ENABLE_IMU \in BOOLEAN
    /\ hoisted \in BOOLEAN
    /\ MainZero
    /\ DrvIdle

(* --------------------------- audio.c ----------------------------------- *)
\* The fallible steps of pdm_init in program order: audio.c:176, 182, 188,
\* 196, 203, 209 (pdm_clock_init), audio.c:129 and audio.c:139.
PdmSteps == <<"pll_reserve", "pll_set_frequency", "pll_enable",
              "hf_reserve", "hf_set_source", "hf_enable",
              "pdm_pcm_init", "pdm_pcm_start">>

\* the non-success status step i returns when it fails
StepError(i) == CY_RSLT_ERROR + i

\* what the steps of one boot would return
PdmOutcomes ==
    [1..PdmInitSteps -> {CY_RSLT_SUCCESS}] \cup
    {[i \in 1..PdmInitSteps |->
         IF i \in F THEN StepError(i) ELSE CY_RSLT_SUCCESS] :
       F \in (SUBSET (1..PdmInitSteps)) \ {{}}}

\* an initialisation that goes on after a failed step
StepAbortsNever(status) == FALSE

\* audio.c:123, 130, 140, 177, 183, 189, 197, 204, 210
\* if(CY_RSLT_SUCCESS != result) return result;
StepAborts(status) == CY_RSLT_SUCCESS # status

\* audio.c:117-143 and 171-216: the steps from step i on; the status that
\* is returned and the steps that were called
RECURSIVE PdmRunSteps(_, _, _)
PdmRunSteps(outcome, i, log) ==
    IF i > PdmInitSteps
    THEN [status |-> CY_RSLT_SUCCESS, log |-> log]
    ELSE IF StepAborts(outcome[i])
         THEN [status |-> outcome[i], log |-> Append(log, i)]
         ELSE PdmRunSteps(outcome, i + 1, Append(log, i))

\* an initialisation that leaves the flag set
PdmInitFlagSet == TRUE

\* audio.c:150  pdm_pcm_flag = false;
PdmInitFlag == FALSE

\* a first read started on the buffer the foreground will read
FirstReadIntoFull(active, full) == full

\* audio.c:153  the buffer the first asynchronous read is started on, given
\* the pointers as audio.c:147-148 set them
FirstReadTarget(active, full) == active

\* main.c:109  result = pdm_init();   audio.c:117-156
pdm_init ==
    /\ pc = "pdm_init"
    /\ \E outcome \in PdmOutcomes :
        LET run == PdmRunSteps(outcome, 1, <<>>) IN
        /\ pdmOutcome' = outcome
        /\ pdmLog' = run.log
        /\ result' = run.status
        /\ pdm_status' = run.status
        /\ IF Len(run.log) = PdmInitSteps
              /\ ~StepAborts(outcome[PdmInitSteps])
           THEN /\ active_rx_buffer' = B0
                /\ full_rx_buffer' = B1
                /\ pdm_pcm_flag' = PdmInitFlag
                /\ dmaTarget' = FirstReadTarget(active_rx_buffer',
                                                full_rx_buffer')
                /\ dmaPos' = 0
                /\ capture' = 1
           ELSE UNCHANGED <<active_rx_buffer, full_rx_buffer, pdm_pcm_flag,
                            dmaTarget, dmaPos, capture>>
    /\ pc' = IF IM_ENABLE_IMU THEN "imu_init" ELSE "check"
    /\ UNCHANGED <<drvVars, cfgVars, audio_buffer, imuVars, fgData, sinkVars,
                   passLog, audioHist>>

\* The DMA engine stores the next sample of the outstanding read.
DmaWrite ==
    /\ pc # "reset"
    /\ dmaTarget # NULL
    /\ dmaPos < FRAME_SIZE
    /\ capture <= MaxCaptures
    /\ audio_buffer' = [audio_buffer EXCEPT ![dmaTarget][dmaPos + 1] = capture]
    /\ dmaPos' = dmaPos + 1
    /\ UNCHANGED <<drvVars, cfgVars, initHist, pc, result, pdm_status, pdm_pcm_flag,
                   active_rx_buffer, full_rx_buffer, dmaTarget, capture,
                   imuVars, fgData, sinkVars, passLog, audioHist>>

\* a handler that flips the buffers whatever the flag says
SwapBranchAlways(flag) == TRUE

\* audio.c:235  if(false == pdm_pcm_flag)
SwapBranch(flag) == flag = FALSE

\* a flip that leaves active_rx_buffer as it was
FlipActiveKeep(active, full) == active

\* a flip that forgets the temporary and leaves full_rx_buffer as it was
FlipFullNoTemp(active, full) == full

\* audio.c:240-242  the values of active_rx_buffer and full_rx_buffer after
\* the flip
FlipActive(active, full) == full

FlipFull(active, full) == active

\* a re-arm into the buffer that holds the completed frame
RearmIntoFull(active, full) == full

\* audio.c:246  the buffer the next asynchronous read is started on, given
\* the pointers as the handler leaves them
RearmTarget(active, full) == active

\* a handler that takes the flag back when the frame is dropped
OverrunFlagCleared(flag) == FALSE

\* audio.c:235-244  the handler has no else branch: a flag found true is
\* left as it is
OverrunFlag(flag) == flag

\* main is between the flag clear of main.c:145 and the return of the
\* protocol_send of main.c:149
InAudioService == pc \in {"feed_enter", "feed", "pdm_send"}

\* audio.c:230-247, run to completion when the asynchronous read completes
pdm_pcm_event_handler ==
    /\ pc # "reset"
    /\ dmaTarget # NULL
    /\ dmaPos = FRAME_SIZE
    /\ IF SwapBranch(pdm_pcm_flag)
       THEN /\ pdm_pcm_flag' = TRUE
            /\ active_rx_buffer' = FlipActive(active_rx_buffer, full_rx_buffer)
            /\ full_rx_buffer' = FlipFull(active_rx_buffer, full_rx_buffer)
            /\ swaps' = Min2(swaps + 1, 2)
            /\ UNCHANGED <<anyOverrun, overruns, stallPending, dropped>>
       ELSE /\ pdm_pcm_flag' = OverrunFlag(pdm_pcm_flag)
            /\ UNCHANGED <<active_rx_buffer, full_rx_buffer, swaps>>
            /\ anyOverrun' = TRUE
            /\ overruns' = Min2(overruns + 1, 2)
            /\ stallPending' =
                 IF InAudioService
                 THEN stallPending
                 ELSE audio_buffer[full_rx_buffer][1]
            /\ dropped' =
                 IF InAudioService THEN dropped ELSE dropped \cup {capture}
    /\ dmaTarget' = RearmTarget(active_rx_buffer', full_rx_buffer')
    /\ dmaPos' = 0
    /\ capture' = capture + 1
    /\ UNCHANGED <<drvVars, cfgVars, initHist, pc, result, pdm_status, audio_buffer, imuVars,
                   fgData, sinkVars, passLog>>

(* ------------------- the polled channel's timer ------------------------ *)
\* imu_init as called at main.c:117: the status it returns, and whether the
\* channel's timer was started (only when every step succeeded).
imu_init ==
    /\ pc = "imu_init"
    /\ \E r \in {CY_RSLT_SUCCESS, CY_RSLT_ERROR} :
        /\ result' = r
        /\ imuTimer' = (r = CY_RSLT_SUCCESS)
    /\ imu_flag' = FALSE
    /\ pc' = "check"
    /\ UNCHANGED <<drvVars, cfgVars, initHist, pdm_status, audioVars, imuTicks, imuOverrun,
                   imuLost, imuSinceClear, fgData, sinkVars, passLog,
                   audioHist>>

\* Terminal-count interrupt of the IMU timer: sets the channel's flag.
imu_interrupt_handler ==
    /\ pc # "reset"
    /\ imuTimer
    /\ imuTicks < MaxTicks
    /\ imu_flag' = TRUE
    /\ imuTicks' = imuTicks + 1
    /\ imuOverrun' = (imuOverrun \/ imu_flag)
    /\ imuLost' = IF imuSinceClear >= 1 THEN imuLost + 1 ELSE imuLost
    /\ imuSinceClear' = Min2(imuSinceClear + 1, 2)
    /\ UNCHANGED <<drvVars, cfgVars, initHist, pc, result, pdm_status, audioVars, imuTimer,
                   fgData, sinkVars, passLog, audioHist>>

(* ------------------------------ main.c --------------------------------- *)
\* main.c:121  if (CY_RSLT_SUCCESS != result)
InitFailed(r) == CY_RSLT_SUCCESS # r

\* main.c:121-127  reset on failure, otherwise enter the loop
main_check ==
    /\ pc = "check"
    /\ pc' = IF InitFailed(result) THEN "reset" ELSE "repl"
    /\ UNCHANGED <<drvVars, cfgVars, initHist, result, pdm_status, audioVars, imuVars, fgData,
                   sinkVars, passLog, audioHist>>

\* main.c:133  the first flag test of a pass
FirstTest == IF IM_ENABLE_IMU THEN "imu_test" ELSE "pdm_test"

\* main.c:130  protocol_repl(), the first statement of every pass
main_repl ==
    /\ pc = "repl"
    /\ passLog' = <<"repl">>
    /\ pc' = FirstTest
    /\ UNCHANGED <<drvVars, cfgVars, initHist, result, pdm_status, audioVars, imuVars, fgData,
                   sinkVars, audioHist>>

\* a service of the IMU channel that does not look at the flag
ImuReadyAlways(flag) == TRUE

\* main.c:134  if (true == imu_flag)
ImuReady(flag) == flag = TRUE

main_imu_test ==
    /\ pc = "imu_test"
    /\ passLog' = Append(passLog, "imu_test")
    /\ pc' = IF ImuReady(imu_flag) THEN "imu_clear" ELSE "pdm_test"
    /\ UNCHANGED <<drvVars, cfgVars, initHist, result, pdm_status, audioVars, imuVars, fgData,
                   sinkVars, audioHist>>

\* a service that leaves the flag as it found it
ImuNotCleared(flag) == flag

\* main.c:136  the value the service stores into imu_flag
ImuCleared(flag) == FALSE

\* main.c:136  imu_flag = false;
main_imu_clear ==
    /\ pc = "imu_clear"
    /\ imu_flag' = ImuCleared(imu_flag)
    /\ imuSinceClear' = 0
    /\ pc' = "imu_get"
    /\ UNCHANGED <<drvVars, cfgVars, initHist, result, pdm_status, audioVars, imuTimer, imuTicks,
                   imuOverrun, imuLost, fgData, sinkVars, passLog, audioHist>>

\* main.c:138  imu_get_data(imu_raw_data);
main_imu_get ==
    /\ pc = "imu_get"
    /\ pc' = "imu_send"
    /\ UNCHANGED <<drvVars, cfgVars, initHist, result, pdm_status, audioVars, imuVars, fgData,
                   sinkVars, passLog, audioHist>>

\* main.c:140  protocol_send(PROTOCOL_IMU_CHANNEL, transmit_imu, sizeof(transmit_imu));
main_imu_send ==
    /\ pc = "imu_send"
    /\ imuSends' = imuSends + 1
    /\ imuLens' = imuLens \cup {ImuFrameLen}
    /\ passLog' = Append(passLog, "send_imu")
    /\ pc' = "pdm_test"
    /\ UNCHANGED <<drvVars, cfgVars, initHist, result, pdm_status, audioVars, imuVars, fgData,
                   sent, audioHist>>

\* a loop that never finds the audio flag set
PdmReadyNever(flag) == FALSE

\* main.c:143  if (true == pdm_pcm_flag)
PdmReady(flag) == flag = TRUE

main_pdm_test ==
    /\ pc = "pdm_test"
    /\ passLog' = Append(passLog, "pdm_test")
    /\ pc' = IF PdmReady(pdm_pcm_flag) THEN "pdm_clear" ELSE "repl"
    /\ UNCHANGED <<drvVars, cfgVars, initHist, result, pdm_status, audioVars, imuVars, fgData,
                   sinkVars, audioHist>>

\* main.c:145  pdm_pcm_flag = false;  followed by the call at main.c:147,
\* whose loop may load full_rx_buffer before its first iteration
main_pdm_clear ==
    /\ pc = "pdm_clear"
    /\ pdm_pcm_flag' = FALSE
    /\ overruns' = 0
    /\ swaps' = 0
    /\ pc' = "feed_enter"
    /\ UNCHANGED <<drvVars, cfgVars, initHist, result, pdm_status, audio_buffer, active_rx_buffer,
                   full_rx_buffer, dmaTarget, dmaPos, capture, imuVars, fgData,
                   sinkVars, passLog, anyOverrun, stallPending, dropped>>

\* audio.c:259-261  entry of pdm_preprocessing_feed
feed_enter ==
    /\ pc = "feed_enter"
    /\ index' = 0
    /\ feedPtr' = full_rx_buffer
    /\ reading' = {}
    /\ pc' = "feed"
    /\ UNCHANGED <<drvVars, cfgVars, initHist, result, pdm_status, audioVars, imuVars,
                   transmit_pdm, sinkVars, passLog, audioHist>>

\* audio.c:263  the buffer that full_rx_buffer[index] is read from
FeedSource == IF hoisted THEN feedPtr ELSE full_rx_buffer

\* audio.c:261-264  one iteration of the copy loop
feed_step ==
    /\ pc = "feed"
    /\ index < FRAME_SIZE
    /\ transmit_pdm' = [transmit_pdm EXCEPT ![index + 1] =
                            audio_buffer[FeedSource][index + 1]]
    /\ reading' = reading \cup {FeedSource}
    /\ index' = index + 1
    /\ UNCHANGED <<drvVars, cfgVars, initHist, pc, result, pdm_status, audioVars, imuVars,
                   feedPtr, sinkVars, passLog, audioHist>>

\* audio.c:261  the loop ends and the function returns
feed_return ==
    /\ pc = "feed"
    /\ index = FRAME_SIZE
    /\ pc' = "pdm_send"
    /\ UNCHANGED <<drvVars, cfgVars, initHist, result, pdm_status, audioVars, imuVars, fgData,
                   sinkVars, passLog, audioHist>>

\* a loop that tests the audio flag again after an audio send
AfterAudioRetest == "pdm_test"

\* main.c:151  where the loop continues after the audio service
AfterAudio == "repl"

\* main.c:149  protocol_send(PROTOCOL_AUDIO_CHANNEL, transmit_pdm, sizeof(transmit_pdm));
main_pdm_send ==
    /\ pc = "pdm_send"
    /\ sent' = Append(sent, [frame |-> transmit_pdm, pending |-> stallPending])
    /\ stallPending' = 0
    /\ reading' = {}
    /\ passLog' = Append(passLog, "send_audio")
    /\ pc' = AfterAudio
    /\ UNCHANGED <<drvVars, cfgVars, initHist, result, pdm_status, audioVars, imuVars, index,
                   feedPtr, transmit_pdm, imuSends, imuLens, anyOverrun,
                   overruns, swaps, dropped>>

(* ------------------------- dps.c and radar.c --------------------------- *)
\* The fallible steps of dps_init in program order: dps.c:95, 100, 103, 104,
\* 107, then dps_timer_init: dps.c:146, 153, 160, 173.
DpsSteps == <<"dps3xx_init_i2c", "get_config", "set_config", "get_config",
              "set_config", "timer_init", "timer_configure",
              "timer_set_frequency", "timer_start">>

\* The fallible steps of radar_init: radar.c:111, then radar_timer_init:
\* radar.c:159, 166, 173, 184.
RadarSteps == <<"bgt60trxx_init", "timer_init", "timer_configure",
                "timer_set_frequency", "timer_start">>

\* what the n steps of one initialisation would return
Outcomes(n) ==
    {[i \in 1..n |-> IF i \in F THEN StepError(i) ELSE CY_RSLT_SUCCESS] :
       F \in {S \in SUBSET (1..n) : Cardinality(S) <= MaxFailures}}

\* dps.c:146-177 and radar.c:159-188: the timer steps from step i to step
\* last, each followed by if (CY_RSLT_SUCCESS != rslt) return rslt;
RECURSIVE TimerRunSteps(_, _, _, _)
TimerRunSteps(outcome, i, last, log) ==
    IF i > last
    THEN [status |-> CY_RSLT_SUCCESS, log |-> log, started |-> TRUE]
    ELSE IF StepAborts(outcome[i])
         THEN [status |-> outcome[i], log |-> Append(log, i),
               started |-> FALSE]
         ELSE TimerRunSteps(outcome, i + 1, last, Append(log, i))

\* dps.c:96-99  CY_ASSERT(0) stops the program unless it is compiled out
DpsAssertHalts(status, ndebug) == status # CY_RSLT_SUCCESS /\ ~ndebug

\* dps.c:90-117: the sensor is initialised, its configuration is read and
\* written twice with the statuses overwritten, dps_flag is cleared and the
\* status of dps_timer_init is returned
DpsRun(outcome, ndebug) ==
    IF DpsAssertHalts(outcome[1], ndebug)
    THEN [status |-> outcome[1], log |-> <<1>>, started |-> FALSE,
          halted |-> TRUE]
    ELSE LET t == TimerRunSteps(outcome, 6, DpsInitSteps, <<1, 2, 3, 4, 5>>)
         IN  [status |-> t.status, log |-> t.log, started |-> t.started,
              halted |-> FALSE]

\* radar.c:119  return -1;
RADAR_INIT_ERROR == -1

\* radar.c:101-130: with IM_ENABLE_RADAR the sensor is initialised first and
\* its failure returns -1; then the status of radar_timer_init is returned
RadarRun(outcome, enabled) ==
    IF enabled /\ outcome[1] # CY_RSLT_SUCCESS
    THEN [status |-> RADAR_INIT_ERROR, log |-> <<1>>, started |-> FALSE,
          flagCleared |-> FALSE]
    ELSE LET t == TimerRunSteps(outcome, 2, RadarInitSteps,
                                IF enabled THEN <<1>> ELSE <<>>)
         IN  [status |-> t.status, log |-> t.log, started |-> t.started,
              flagCleared |-> enabled]

\* no handler is running: the foreground executes
Foreground == nvicActive = <<>> /\ upc \notin {"none", "reset", "halted"}

\* where the foreground goes after the initialisations before channel c
AfterInit(c) ==
    IF c = "pdm" /\ "dps" \in served THEN "dps_init"
    ELSE IF c \in {"pdm", "dps"} /\ "radar" \in served THEN "radar_init"
    ELSE "repl"

\* audio.c:136-137  the async-complete event is enabled at
\* CYHAL_ISR_PRIORITY_DEFAULT
drv_pdm_enable ==
    /\ Foreground
    /\ upc = "pdm_enable"
    /\ pdmEvent' = TRUE
    /\ upc' = AfterInit("pdm")
    /\ UNCHANGED <<mainVars, NDEBUG, IM_ENABLE_RADAR, served, dps_flag,
                   radar_flag, dpsTimer, radarTimer, dpsOutcome, dpsLog,
                   dps_status, radarOutcome, radarLog, radar_status, dps_data,
                   radar_data, bgt60_buffer, nvicPending, nvicActive,
                   irqCount, lastRead, drvSent>>

\* dps_init (dps.c:90-117), and the reset of the caller when it fails
drv_dps_init ==
    /\ Foreground
    /\ upc = "dps_init"
    /\ \E outcome \in Outcomes(DpsInitSteps) :
        LET run == DpsRun(outcome, NDEBUG) IN
        /\ dpsOutcome' = outcome
        /\ dpsLog' = run.log
        /\ dps_status' = run.status
        /\ dpsTimer' = run.started
        /\ dps_flag' = IF run.halted THEN dps_flag ELSE FALSE
        /\ upc' = IF run.halted THEN "halted"
                  ELSE IF InitFailed(run.status) THEN "reset"
                  ELSE AfterInit("dps")
    /\ UNCHANGED <<mainVars, NDEBUG, IM_ENABLE_RADAR, served, radar_flag,
                   radarTimer, radarOutcome, radarLog, radar_status, dps_data,
                   radar_data, bgt60_buffer, pdmEvent, nvicPending,
                   nvicActive, irqCount, lastRead, drvSent>>

\* radar_init (radar.c:101-130), and the reset of the caller when it fails
drv_radar_init ==
    /\ Foreground
    /\ upc = "radar_init"
    /\ \E outcome \in Outcomes(RadarInitSteps) :
        LET run == RadarRun(outcome, IM_ENABLE_RADAR) IN
        /\ radarOutcome' = outcome
        /\ radarLog' = run.log
        /\ radar_status' = run.status
        /\ radarTimer' = run.started
        /\ radar_flag' = IF run.flagCleared THEN FALSE ELSE radar_flag
        /\ upc' = IF InitFailed(run.status) THEN "reset"
                  ELSE AfterInit("radar")
    /\ UNCHANGED <<mainVars, NDEBUG, IM_ENABLE_RADAR, served, dps_flag,
                   dpsTimer, dpsOutcome, dpsLog, dps_status, dps_data,
                   radar_data, bgt60_buffer, pdmEvent, nvicPending,
                   nvicActive, irqCount, lastRead, drvSent>>

(* ----------------------- interrupt controller -------------------------- *)
\* dps.c:54, radar.c:66
DPS_TIMER_PRIORITY == 6
RADAR_TIMER_PRIORITY == 7
\* audio.c:137 passes CYHAL_ISR_PRIORITY_DEFAULT, which the HAL of the
\* target (PSoC 6, Cortex-M4 with three priority bits) defines as 7, the
\* least urgent level
CYHAL_ISR_PRIORITY_DEFAULT == 7

\* audio.c:137, dps.c:170, radar.c:182: the priority each event is enabled at
Priority(src) ==
    CASE src = "pdm" -> CYHAL_ISR_PRIORITY_DEFAULT
      [] src = "dps" -> DPS_TIMER_PRIORITY
      [] src = "radar" -> RADAR_TIMER_PRIORITY

\* Cortex-M NVIC: a request pre-empts a running handler only when its
\* priority value is strictly smaller
Preempts(a, b) == Priority(a) < Priority(b)

\* the source's event is enabled and its hardware is running
IrqEnabled(src) ==
    CASE src = "pdm" -> pdmEvent
      [] src = "dps" -> dpsTimer
      [] src = "radar" -> radarTimer

\* the NVIC can start the handler of src now
CanEnter(src) ==
    /\ src \in nvicPending
    /\ IF nvicActive = <<>> THEN TRUE
       ELSE Preempts(src, Head(nvicActive))
    /\ \A o \in nvicPending : ~Preempts(o, src)

\* the hardware raises a request: the read completes (audio.c:153, 246) or
\* the timer reaches its terminal count (dps.c:170-173, radar.c:182-184)
IrqRaise ==
    /\ upc \notin {"none", "reset", "halted"}
    /\ \E src \in IrqSources :
        /\ IrqEnabled(src)
        /\ irqCount < MaxIrqs
        /\ nvicPending' = nvicPending \cup {src}
        /\ irqCount' = irqCount + 1
    /\ UNCHANGED <<mainVars, NDEBUG, IM_ENABLE_RADAR, served, upc, dps_flag,
                   radar_flag, dpsTimer, radarTimer, dpsOutcome, dpsLog,
                   dps_status, radarOutcome, radarLog, radar_status, dps_data,
                   radar_data, bgt60_buffer, pdmEvent, nvicActive, lastRead,
                   drvSent>>

\* the NVIC enters the handler of a pending request
IrqEnter ==
    /\ upc \notin {"none", "reset", "halted"}
    /\ \E src \in IrqSources :
        /\ CanEnter(src)
        /\ nvicPending' = nvicPending \ {src}
        /\ nvicActive' = <<src>> \o nvicActive
    /\ UNCHANGED <<mainVars, NDEBUG, IM_ENABLE_RADAR, served, upc, dps_flag,
                   radar_flag, dpsTimer, radarTimer, dpsOutcome, dpsLog,
                   dps_status, radarOutcome, radarLog, radar_status, dps_data,
                   radar_data, bgt60_buffer, pdmEvent, irqCount, lastRead,
                   drvSent>>

\* a handler that toggles the flag
TimerFlagToggled(flag) == ~flag

\* dps.c:201  dps_flag = true;
DpsHandlerFlag(flag) == TRUE

\* radar.c:212  radar_flag = true;
RadarHandlerFlag(flag) == TRUE

\* dps.c:196-202, entered by the NVIC, run to its return
dps_timer_intr_handler ==
    /\ nvicActive # <<>>
    /\ Head(nvicActive) = "dps"
    /\ dps_flag' = DpsHandlerFlag(dps_flag)
    /\ nvicActive' = Tail(nvicActive)
    /\ UNCHANGED <<mainVars, NDEBUG, IM_ENABLE_RADAR, served, upc,
                   radar_flag, dpsTimer, radarTimer, dpsOutcome, dpsLog,
                   dps_status, radarOutcome, radarLog, radar_status, dps_data,
                   radar_data, bgt60_buffer, pdmEvent, nvicPending, irqCount,
                   lastRead, drvSent>>

\* radar.c:207-213, entered by the NVIC, run to its return
radar_interrupt_handler ==
    /\ nvicActive # <<>>
    /\ Head(nvicActive) = "radar"
    /\ radar_flag' = RadarHandlerFlag(radar_flag)
    /\ nvicActive' = Tail(nvicActive)
    /\ UNCHANGED <<mainVars, NDEBUG, IM_ENABLE_RADAR, served, upc,
                   dps_flag, dpsTimer, radarTimer, dpsOutcome, dpsLog,
                   dps_status, radarOutcome, radarLog, radar_status, dps_data,
                   radar_data, bgt60_buffer, pdmEvent, nvicPending, irqCount,
                   lastRead, drvSent>>

\* the return of the audio handler (audio.c:230-247); what it does to the
\* capture is the action pdm_pcm_event_handler, here it only occupies the
\* processor at its priority
pdm_handler_return ==
    /\ nvicActive # <<>>
    /\ Head(nvicActive) = "pdm"
    /\ nvicActive' = Tail(nvicActive)
    /\ UNCHANGED <<mainVars, NDEBUG, IM_ENABLE_RADAR, served, upc, dps_flag,
                   radar_flag, dpsTimer, radarTimer, dpsOutcome, dpsLog,
                   dps_status, radarOutcome, radarLog, radar_status, dps_data,
                   radar_data, bgt60_buffer, pdmEvent, nvicPending, irqCount,
                   lastRead, drvSent>>

(* ------------------ reads and the foreground's services ---------------- *)
\* the pressure and temperature pairs a read can deliver
DpsSamples == {<<1, 21>>, <<2, 22>>}
RadarWords == {1, 40000}

\* a read that stores whatever the status is
DpsGetDataAlways(buf, status, pressure, temperature) ==
    <<pressure, temperature>>

\* dps.c:216-228: the caller's buffer after dps_get_data
DpsGetData(buf, status, pressure, temperature) ==
    IF CY_RSLT_SUCCESS = status THEN <<pressure, temperature>> ELSE buf

\* radar.c:236  the uint16_t word stored into an int16_t
ToInt16(w) == IF w >= 32768 THEN w - 65536 ELSE w

\* radar.c:227-240: the caller's buffer after radar_get_data, fifo being
\* the contents of bgt60_buffer after the driver's read
RadarGetData(buf, status, fifo, enabled) ==
    IF enabled /\ CY_RSLT_SUCCESS = status
    THEN [i \in 1..RADAR_AXIS |-> ToInt16(fifo[i])]
    ELSE buf

\* the flag test that follows the service of channel c, or protocol_repl
AfterService(c) ==
    IF c = "repl" /\ "dps" \in served THEN "dps_test"
    ELSE IF c \in {"repl", "dps"} /\ "radar" \in served THEN "radar_test"
    ELSE "repl"

\* protocol_repl(), the first statement of a pass (as main.c:130)
drv_repl ==
    /\ Foreground
    /\ upc = "repl"
    /\ upc' = AfterService("repl")
    /\ UNCHANGED <<mainVars, NDEBUG, IM_ENABLE_RADAR, served, dps_flag,
                   radar_flag, dpsTimer, radarTimer, dpsOutcome, dpsLog,
                   dps_status, radarOutcome, radarLog, radar_status, dps_data,
                   radar_data, bgt60_buffer, pdmEvent, nvicPending,
                   nvicActive, irqCount, lastRead, drvSent>>

\* if (true == dps_flag)  (as main.c:134)
drv_dps_test ==
    /\ Foreground
    /\ upc = "dps_test"
    /\ upc' = IF dps_flag = TRUE THEN "dps_clear" ELSE AfterService("dps")
    /\ UNCHANGED <<mainVars, NDEBUG, IM_ENABLE_RADAR, served, dps_flag,
                   radar_flag, dpsTimer, radarTimer, dpsOutcome, dpsLog,
                   dps_status, radarOutcome, radarLog, radar_status, dps_data,
                   radar_data, bgt60_buffer, pdmEvent, nvicPending,
                   nvicActive, irqCount, lastRead, drvSent>>

\* dps_flag = false;  (as main.c:136)
drv_dps_clear ==
    /\ Foreground
    /\ upc = "dps_clear"
    /\ dps_flag' = FALSE
    /\ upc' = "dps_get"
    /\ UNCHANGED <<mainVars, NDEBUG, IM_ENABLE_RADAR, served,
                   radar_flag, dpsTimer, radarTimer, dpsOutcome, dpsLog,
                   dps_status, radarOutcome, radarLog, radar_status, dps_data,
                   radar_data, bgt60_buffer, pdmEvent, nvicPending,
                   nvicActive, irqCount, lastRead, drvSent>>

\* dps_get_data(dps_data) with its status not looked at  (as main.c:138)
drv_dps_get ==
    /\ Foreground
    /\ upc = "dps_get"
    /\ \E status \in {CY_RSLT_SUCCESS, CY_RSLT_ERROR} :
       \E sample \in DpsSamples :
        /\ dps_data' = DpsGetData(dps_data, status, sample[1], sample[2])
        /\ lastRead' = [chan |-> "dps", status |-> status,
                        before |-> dps_data]
    /\ upc' = "dps_send"
    /\ UNCHANGED <<mainVars, NDEBUG, IM_ENABLE_RADAR, served, dps_flag,
                   radar_flag, dpsTimer, radarTimer, dpsOutcome, dpsLog,
                   dps_status, radarOutcome, radarLog, radar_status,
                   radar_data, bgt60_buffer, pdmEvent, nvicPending,
                   nvicActive, irqCount, drvSent>>

\* protocol_send of the pressure channel  (as main.c:140)
drv_dps_send ==
    /\ Foreground
    /\ upc = "dps_send"
    /\ drvSent' = [drvSent EXCEPT !["dps"] =
                     Append(@, [frame |-> dps_data,
                                status |-> lastRead.status,
                                before |-> lastRead.before])]
    /\ upc' = AfterService("dps")
    /\ UNCHANGED <<mainVars, NDEBUG, IM_ENABLE_RADAR, served, dps_flag,
                   radar_flag, dpsTimer, radarTimer, dpsOutcome, dpsLog,
                   dps_status, radarOutcome, radarLog, radar_status, dps_data,
                   radar_data, bgt60_buffer, pdmEvent, nvicPending,
                   nvicActive, irqCount, lastRead>>

\* if (true == radar_flag)  (as main.c:134)
drv_radar_test ==
    /\ Foreground
    /\ upc = "radar_test"
    /\ upc' = IF radar_flag = TRUE THEN "radar_clear"
              ELSE AfterService("radar")
    /\ UNCHANGED <<mainVars, NDEBUG, IM_ENABLE_RADAR, served, dps_flag,
                   radar_flag, dpsTimer, radarTimer, dpsOutcome, dpsLog,
                   dps_status, radarOutcome, radarLog, radar_status, dps_data,
                   radar_data, bgt60_buffer, pdmEvent, nvicPending,
                   nvicActive, irqCount, lastRead, drvSent>>

\* radar_flag = false;  (as main.c:136)
drv_radar_clear ==
    /\ Foreground
    /\ upc = "radar_clear"
    /\ radar_flag' = FALSE
    /\ upc' = "radar_get"
    /\ UNCHANGED <<mainVars, NDEBUG, IM_ENABLE_RADAR, served, dps_flag,
                   dpsTimer, radarTimer, dpsOutcome, dpsLog,
                   dps_status, radarOutcome, radarLog, radar_status, dps_data,
                   radar_data, bgt60_buffer, pdmEvent, nvicPending,
                   nvicActive, irqCount, lastRead, drvSent>>

\* radar_get_data(radar_data)  (as main.c:138); the driver's read fills
\* bgt60_buffer, and may or may not have written it when it fails
drv_radar_get ==
    /\ Foreground
    /\ upc = "radar_get"
    /\ \E status \in {CY_RSLT_SUCCESS, CY_RSLT_ERROR} :
       \E fifo \in [1..NUM_SAMPLES_PER_FRAME -> RadarWords] :
       \E written \in BOOLEAN :
        /\ IM_ENABLE_RADAR /\ status = CY_RSLT_SUCCESS => written
        /\ ~IM_ENABLE_RADAR => ~written
        /\ bgt60_buffer' = IF written THEN fifo ELSE bgt60_buffer
        /\ radar_data' = RadarGetData(radar_data, status, bgt60_buffer',
                                      IM_ENABLE_RADAR)
        /\ lastRead' = [chan |-> "radar", status |-> status,
                        before |-> radar_data]
    /\ upc' = "radar_send"
    /\ UNCHANGED <<mainVars, NDEBUG, IM_ENABLE_RADAR, served, dps_flag,
                   radar_flag, dpsTimer, radarTimer, dpsOutcome, dpsLog,
                   dps_status, radarOutcome, radarLog, radar_status, dps_data,
                   pdmEvent, nvicPending, nvicActive, irqCount, drvSent>>

\* protocol_send of the radar channel  (as main.c:140)
drv_radar_send ==
    /\ Foreground
    /\ upc = "radar_send"
    /\ drvSent' = [drvSent EXCEPT !["radar"] =
                     Append(@, [frame |-> radar_data,
                                status |-> lastRead.status,
                                before |-> lastRead.before])]
    /\ upc' = AfterService("radar")
    /\ UNCHANGED <<mainVars, NDEBUG, IM_ENABLE_RADAR, served, dps_flag,
                   radar_flag, dpsTimer, radarTimer, dpsOutcome, dpsLog,
                   dps_status, radarOutcome, radarLog, radar_status, dps_data,
                   radar_data, bgt60_buffer, pdmEvent, nvicPending,
                   nvicActive, irqCount, lastRead>>

\* A build that serves the pressure channel, the radar channel or both, with
\* main.c's own channels left out.
InitDrv ==
    /\ IM_ENABLE_IMU = FALSE
    /\ hoisted = FALSE
    /\ MainZero
    /\ DrvZero
    /\ NDEBUG \in BOOLEAN
    /\ served \in (SUBSET Channels) \ {{}}
    /\ IM_ENABLE_RADAR \in (IF "radar" \in served THEN BOOLEAN ELSE {FALSE})
    /\ upc = "pdm_enable"

NextDrv ==
    \/ drv_pdm_enable
    \/ drv_dps_init
    \/ drv_radar_init
    \/ drv_repl
    \/ drv_dps_test
    \/ drv_dps_clear
    \/ drv_dps_get
    \/ drv_dps_send
    \/ drv_radar_test
    \/ drv_radar_clear
    \/ drv_radar_get
    \/ drv_radar_send
    \/ IrqRaise
    \/ IrqEnter
    \/ dps_timer_intr_handler
    \/ radar_interrupt_handler
    \/ pdm_handler_return

SpecDrv == InitDrv /\ [][NextDrv]_vars

Next ==
    \/ pdm_init
    \/ imu_init
    \/ main_check
    \/ main_repl
    \/ main_imu_test
    \/ main_imu_clear
    \/ main_imu_get
    \/ main_imu_send
    \/ main_pdm_test
    \/ main_pdm_clear
    \/ feed_enter
    \/ feed_step
    \/ feed_return
    \/ main_pdm_send
    \/ DmaWrite
    \/ pdm_pcm_event_handler
    \/ imu_interrupt_handler

Spec == Init /\ [][Next]_vars

\* the statements of main: the foreground is the only thread of a bare-metal
\* target, so it executes its next statement whenever no ISR is running
MainStep ==
    \/ pdm_init
    \/ imu_init
    \/ main_check
    \/ main_repl
    \/ main_imu_test
    \/ main_imu_clear
    \/ main_imu_get
    \/ main_imu_send
    \/ main_pdm_test
    \/ main_pdm_clear
    \/ feed_enter
    \/ feed_step
    \/ feed_return
    \/ main_pdm_send

\* the foreground keeps taking steps and the calls it makes return
FairSpec == Spec /\ WF_vars(MainStep)

TypeOK ==
    /\ pc \in {"pdm_init", "imu_init", "check", "reset", "repl", "imu_test",
               "imu_clear", "imu_get", "imu_send", "pdm_test", "pdm_clear",
               "feed_enter", "feed", "pdm_send"}
    /\ dmaPos \in 0..FRAME_SIZE
    /\ index \in 0..FRAME_SIZE

(* ------------------------- derived notions ----------------------------- *)
\* pdm_init has returned success: the capture is running
PdmRunning == pc # "pdm_init" /\ pdm_status = CY_RSLT_SUCCESS

\* some initialisation called from main has returned a non-success status
SomeInitFailed ==
    \/ pc # "pdm_init" /\ pdm_status # CY_RSLT_SUCCESS
    \/ IM_ENABLE_IMU /\ pc \notin {"pdm_init", "imu_init"}
                     /\ result # CY_RSLT_SUCCESS

InLoop == pc \notin {"pdm_init", "imu_init", "check", "reset"}

IsPrefix(s, t) == Len(s) <= Len(t) /\ \A i \in 1..Len(s) : s[i] = t[i]

\* what one pass of the loop may do, in order
AllowedPasses ==
    IF IM_ENABLE_IMU
    THEN {<<"repl", "imu_test", "pdm_test">>,
          <<"repl", "imu_test", "pdm_test", "send_audio">>,
          <<"repl", "imu_test", "send_imu", "pdm_test">>,
          <<"repl", "imu_test", "send_imu", "pdm_test", "send_audio">>}
    ELSE {<<"repl", "pdm_test">>,
          <<"repl", "pdm_test", "send_audio">>}

(* ------------------------------ claims --------------------------------- *)

\* C1: every audio frame handed to protocol_send consists of the samples of
\* one single DMA completion (never a mix of two captures, never a partly
\* written capture).
C1_NoTornReads ==
    \A j \in 1..Len(sent) :
        \E k \in 1..(MaxCaptures + 1) : sent[j].frame = Uniform(k)

\* C2: while pdm_preprocessing_feed is copying, the buffer the DMA engine is
\* armed to write is neither a buffer the copy has read from nor the buffer
\* it reads next.
C2_PingPongExclusive ==
    pc = "feed" =>
        /\ dmaTarget \notin reading
        /\ index < FRAME_SIZE => dmaTarget # FeedSource

\* C3: as long as no audio ISR has found pdm_pcm_flag true, the frames handed
\* to protocol_send are the captures 1, 2, 3, ... in order, each once.
C3_NoDropWithoutOverrun ==
    ~anyOverrun => \A j \in 1..Len(sent) : sent[j].frame = Uniform(j)

\* C4: of two consecutive audio frames sent, the second is a strictly later
\* capture than the first.
C4_StrictCaptureOrder ==
    \A j \in 1..(Len(sent) - 1) :
        \A a, b \in 1..FRAME_SIZE : sent[j].frame[a] < sent[j + 1].frame[b]

\* C5: once an initialisation called from main has failed, main resets
\* instead of entering the loop, and protocol_send is never called.
C5_BootFailureResets ==
    SomeInitFailed =>
        /\ ~InLoop
        /\ Len(sent) = 0
        /\ imuSends = 0

\* C6: the first audio frame sent after captures were dropped while a frame
\* was pending is that pending frame, and no dropped capture is ever sent.
C6_OverrunKeepsOlder ==
    \A j \in 1..Len(sent) :
        /\ sent[j].pending # 0 => sent[j].frame = Uniform(sent[j].pending)
        /\ \A i \in 1..FRAME_SIZE : sent[j].frame[i] \notin dropped

\* C7: a pass calls protocol_repl once and first, tests the IMU flag before
\* the audio flag, and sends at most once per channel, IMU before audio.
C7_ServicingOrder ==
    InLoop => \E p \in AllowedPasses : IsPrefix(passLog, p)

\* C7 witness: a pass has served both channels and the IMU flag was set
\* again during the pass.
C7_Witness ==
    /\ passLog = <<"repl", "imu_test", "send_imu", "pdm_test", "send_audio">>
    /\ imu_flag
    /\ pc = "repl"

\* C8: once pdm_init has succeeded, active_rx_buffer and full_rx_buffer are
\* the two different buffers audio_buffer0 and audio_buffer1.
C8_ActiveNeFull ==
    PdmRunning => {active_rx_buffer, full_rx_buffer} = {B0, B1}

\* C8 witness: both branches of the ISR and a foreground service have run,
\* and the pair is in the swapped position.
C8_Witness ==
    /\ anyOverrun
    /\ Len(sent) >= 1
    /\ active_rx_buffer = B1
    /\ full_rx_buffer = B0

\* C9 as stated: no two audio ISR invocations find pdm_pcm_flag true without
\* a foreground clear between them.
C9_NoRepeatedOverrun == overruns <= 1

\* C9 amended: between two foreground clears at most one audio ISR
\* invocation finds the flag false and publishes a frame; the flag is true
\* exactly while that one frame is pending, and only then can further
\* invocations find it true.
C9_AtMostOnePending ==
    PdmRunning =>
        /\ swaps <= 1
        /\ pdm_pcm_flag <=> swaps = 1
        /\ overruns > 0 => pdm_pcm_flag

\* C9 witness: two invocations in a row found the flag true while one frame
\* was pending.
C9_Witness == overruns = 2 /\ swaps = 1 /\ pdm_pcm_flag

\* C10: the IMU sends never exceed the IMU ticks; while no tick has found
\* the flag still set, every tick is sent, pending in the flag or in
\* service; every send has the fixed length.
C10_PolledDeliveryCount ==
    /\ imuSends <= imuTicks
    /\ ~imuOverrun =>
         imuTicks = imuSends + (IF imu_flag THEN 1 ELSE 0)
                             + (IF pc \in {"imu_get", "imu_send"} THEN 1 ELSE 0)
    /\ imuLens \subseteq {ImuFrameLen}

\* C10 witness: every tick was cleared before the next and all were sent.
C10_Witness ==
    /\ imuTicks = MaxTicks
    /\ imuSends = MaxTicks
    /\ ~imuOverrun
    /\ imuLens = {ImuFrameLen}

\* the last thing the current pass has done
LastOfPass == IF Len(passLog) = 0 THEN "none" ELSE passLog[Len(passLog)]

\* C12: once in the loop main never leaves it (no exit, no reset), and while
\* the foreground keeps running every set flag is followed by the foreground
\* clear of that flag and then by the protocol_send of that channel.
C12_RunsAndServes ==
    /\ [][InLoop => InLoop']_vars
    /\ (InLoop /\ pdm_pcm_flag) ~> (pc = "feed_enter")
    /\ (pc = "feed_enter") ~> (pc = "repl" /\ LastOfPass = "send_audio")
    /\ (InLoop /\ imu_flag) ~> (pc = "imu_get")
    /\ (pc = "imu_get") ~> (pc = "pdm_test" /\ LastOfPass = "send_imu")

\* C12 witness: in the loop, both channels' flags were set, cleared and sent,
\* and the audio flag is set again.
C12_Witness ==
    /\ InLoop
    /\ Len(sent) >= 1
    /\ imuSends >= 1
    /\ pdm_pcm_flag

\* a step in which the completion of the asynchronous read is handled: the
\* only step that takes the DMA position back from the end of the frame
IsrStep == dmaPos = FRAME_SIZE /\ dmaPos' = 0

\* a step in which the foreground clears pdm_pcm_flag
PdmClearStep == pdm_pcm_flag /\ ~pdm_pcm_flag'

\* C14: when the foreground clears pdm_pcm_flag it has already copied the
\* whole frame out of full_rx_buffer, and no ISR flips the buffers while the
\* copy is in progress.
C14_CopyThenClear ==
    [][/\ PdmClearStep => transmit_pdm = audio_buffer[full_rx_buffer]
       /\ pc \in {"feed_enter", "feed"} => full_rx_buffer' = full_rx_buffer]_vars

\* C15: an audio ISR that finds pdm_pcm_flag true leaves the flag, both
\* pointers and both buffers' contents as they are, and re-arms the read
\* into the same active buffer, from its first sample.
C15_OverrunOnlyRearms ==
    [][(IsrStep /\ pdm_pcm_flag) =>
          /\ pdm_pcm_flag'
          /\ active_rx_buffer' = active_rx_buffer
          /\ full_rx_buffer' = full_rx_buffer
          /\ audio_buffer' = audio_buffer
          /\ dmaTarget' = active_rx_buffer
          /\ dmaTarget' = dmaTarget
          /\ capture' = capture + 1]_vars

\* C15 witness: a completed capture was dropped and the next capture is
\* overwriting it in the active buffer while the pending frame is intact.
C15_Witness ==
    /\ overruns >= 1
    /\ pdm_pcm_flag
    /\ dmaTarget = active_rx_buffer
    /\ dmaPos = 1
    /\ audio_buffer[active_rx_buffer][1] = capture
    /\ audio_buffer[active_rx_buffer][FRAME_SIZE] = capture - 1
    /\ audio_buffer[full_rx_buffer] = Uniform(capture - overruns - 1)

\* C16: an audio ISR that finds pdm_pcm_flag false sets it and exchanges the
\* two pointers; in both branches the ISR starts exactly one read, on the
\* value active_rx_buffer has when the ISR returns.
C16_SwapAndRearm ==
    [][IsrStep =>
          /\ ~pdm_pcm_flag =>
                /\ pdm_pcm_flag'
                /\ full_rx_buffer' = active_rx_buffer
                /\ active_rx_buffer' = full_rx_buffer
          /\ dmaTarget' = active_rx_buffer'
          /\ capture' = capture + 1]_vars

\* C16 witness: the ISR has flipped the buffers twice and the read is armed
\* on the active buffer.
C16_Witness ==
    /\ capture = 3
    /\ ~anyOverrun
    /\ pdm_pcm_flag
    /\ active_rx_buffer = B0
    /\ full_rx_buffer = B1
    /\ dmaTarget = B0
    /\ dmaPos = 0

\* the foreground has cleared imu_flag for a tick it has not sent yet
ImuInService == pc \in {"imu_get", "imu_send"}

\* C17: the service of the polled channel clears the flag before the read
\* and the send, so the flag is set exactly when a tick has arrived since
\* the last clear (also during the read and the send); a tick is lost only
\* when it is not the first tick since the last clear, and every other tick
\* is sent, in service or pending in the flag.
C17_ClearBeforeWork ==
    /\ imu_flag <=> imuSinceClear >= 1
    /\ imuOverrun <=> imuLost > 0
    /\ imuTicks = imuSends + imuLost
                  + (IF imu_flag THEN 1 ELSE 0)
                  + (IF ImuInService THEN 1 ELSE 0)

\* C17 witness: a tick arrived after the clear and before the send of the
\* previous one; it is pending and none was lost.
C17_Witness ==
    /\ pc = "imu_send"
    /\ imu_flag
    /\ imuSinceClear = 1
    /\ imuTicks = 2
    /\ imuLost = 0

\* the first step of pdm_init that fails in this boot (0: none does)
PdmFirstFailure ==
    IF \A i \in 1..PdmInitSteps : pdmOutcome[i] = CY_RSLT_SUCCESS
    THEN 0
    ELSE CHOOSE i \in 1..PdmInitSteps :
            /\ pdmOutcome[i] # CY_RSLT_SUCCESS
            /\ \A j \in 1..(i - 1) : pdmOutcome[j] = CY_RSLT_SUCCESS

\* C19: pdm_init calls its steps in order and stops at the first one that
\* fails, returning that step's status; then no read is armed and the audio
\* ISR never runs. It returns success only if every step succeeded, and then
\* the first read is armed.
C19_InitAbortsAtFirstFailure ==
    pc # "pdm_init" =>
        IF PdmFirstFailure = 0
        THEN /\ pdm_status = CY_RSLT_SUCCESS
             /\ pdmLog = [i \in 1..PdmInitSteps |-> i]
             /\ dmaTarget \in Buffers
        ELSE /\ pdm_status = pdmOutcome[PdmFirstFailure]
             /\ pdm_status # CY_RSLT_SUCCESS
             /\ pdmLog = [i \in 1..PdmFirstFailure |-> i]
             /\ dmaTarget = NULL
             /\ capture = 0
             /\ swaps = 0 /\ overruns = 0
             /\ ~pdm_pcm_flag

\* C19 witness: the source selection of the root clock failed (and a later
\* step would have failed too); main went on to run the loop.
C19_Witness ==
    /\ PdmFirstFailure = 5
    /\ pdmOutcome[7] # CY_RSLT_SUCCESS
    /\ PdmSteps[5] = "hf_set_source"
    /\ pdmLog = <<1, 2, 3, 4, 5>>
    /\ InLoop
    /\ imuTicks >= 1

\* the records protocol_send was given on channel c
SentOn(c) == {drvSent[c][i] : i \in 1..Len(drvSent[c])}

\* a step in which the foreground leaves position p
Leaves(p) == upc = p /\ upc' # p

\* C11: when the driver read inside dps_get_data or radar_get_data fails,
\* the caller's buffer keeps exactly the contents it had before the call,
\* and the foreground still sends that buffer: every read of a polled
\* channel is followed by the channel's send whatever status the read had.
C11_StaleDataForwarded ==
    /\ [](\A c \in Channels : \A r \in SentOn(c) :
            r.status # CY_RSLT_SUCCESS => r.frame = r.before)
    /\ [][/\ Leaves("dps_get") =>
                /\ upc' = "dps_send"
                /\ lastRead'.status # CY_RSLT_SUCCESS => dps_data' = dps_data
          /\ Leaves("radar_get") =>
                /\ upc' = "radar_send"
                /\ lastRead'.status # CY_RSLT_SUCCESS
                      => radar_data' = radar_data
          /\ Leaves("dps_send") =>
                Len(drvSent'["dps"]) = Len(drvSent["dps"]) + 1
          /\ Leaves("radar_send") =>
                Len(drvSent'["radar"]) = Len(drvSent["radar"]) + 1]_vars

\* C11 witness: the pressure channel sent a fresh sample, then its next read
\* failed and the same sample was sent again.
C11_Witness ==
    /\ Len(drvSent["dps"]) = 2
    /\ drvSent["dps"][1].status = CY_RSLT_SUCCESS
    /\ drvSent["dps"][1].frame \in DpsSamples
    /\ drvSent["dps"][2].status # CY_RSLT_SUCCESS
    /\ drvSent["dps"][2].frame = drvSent["dps"][1].frame

\* a step in which the handler of src runs to its return
HandlerStep(src) ==
    /\ nvicActive # <<>>
    /\ Head(nvicActive) = src
    /\ nvicActive' = Tail(nvicActive)

\* what the program holds besides the two polled ready-flags: the audio
\* references and flags, every buffer, the timers and the foreground
ProgramRest ==
    <<mainVars, upc, dps_data, radar_data, bgt60_buffer, dpsTimer,
      radarTimer, pdmEvent, dps_status, radar_status, lastRead, drvSent>>

\* C18: a polled-channel timer handler sets its own ready-flag to true and
\* changes nothing else: not the other flag, no buffer, not the audio
\* references; run with the flag already true it leaves the state as it
\* was, and no count of the ticks is kept.
C18_HandlerOnlySetsFlag ==
    [][/\ HandlerStep("dps") =>
            /\ dps_flag' = TRUE
            /\ UNCHANGED <<radar_flag, ProgramRest, irqCount>>
       /\ HandlerStep("radar") =>
            /\ radar_flag' = TRUE
            /\ UNCHANGED <<dps_flag, ProgramRest, irqCount>>]_vars

\* C18 witness: the pressure timer's handler has been entered again while
\* the flag an earlier run of it set has not been cleared, and the radar
\* flag is clear.
C18_Witness ==
    /\ nvicActive # <<>>
    /\ Head(nvicActive) = "dps"
    /\ dps_flag = TRUE
    /\ radar_flag = FALSE
    /\ radarTimer = TRUE
    /\ drvSent["dps"] = <<>>

\* a polled-channel handler was entered on top of the audio handler
PolledPreemptsAudio ==
    \E i \in 1..Len(nvicActive) : \E j \in 1..Len(nvicActive) :
        /\ i < j
        /\ nvicActive[i] \in Channels
        /\ nvicActive[j] = "pdm"

\* the audio request waits for a polled-channel handler to return
PolledDelaysAudio ==
    /\ nvicActive # <<>>
    /\ Head(nvicActive) \in Channels
    /\ "pdm" \in nvicPending
    /\ ~CanEnter("pdm")

\* C13: the timer interrupts of the polled channels are enabled at a
\* strictly lower priority than the audio async-complete event, so the
\* audio handler pre-empts a polled-channel handler and is never pre-empted
\* or delayed by one.
C13_AudioOutranksPolled ==
    /\ ~PolledPreemptsAudio
    /\ ~PolledDelaysAudio

\* the first of the called steps that returns non-success (0: none does)
FirstFailure(outcome, called) ==
    IF \A i \in called : outcome[i] = CY_RSLT_SUCCESS
    THEN 0
    ELSE CHOOSE i \in called :
            /\ outcome[i] # CY_RSLT_SUCCESS
            /\ \A j \in called : j < i => outcome[j] = CY_RSLT_SUCCESS

\* the steps this build's radar_init contains (radar.c:104, 126)
RadarCalled == IF IM_ENABLE_RADAR THEN 1..RadarInitSteps
               ELSE 2..RadarInitSteps

\* an initialisation with the given status, log and timer stopped at the
\* first failing step f of its called steps and reported it
PropagatesFailure(f, called, status, log, timer, flag) ==
    f # 0 =>
        /\ status # CY_RSLT_SUCCESS
        /\ {log[i] : i \in 1..Len(log)} = {i \in called : i <= f}
        /\ ~timer
        /\ ~flag

\* C20: dps_init and radar_init return non-success whenever one of their
\* steps does, and perform no step after the failing one: the channel's
\* timer is not started and its ready-flag is never set after a failed
\* initialisation.
C20_InitPropagatesFailure ==
    /\ dpsLog # <<>> =>
          PropagatesFailure(FirstFailure(dpsOutcome, 1..DpsInitSteps),
                            1..DpsInitSteps, dps_status, dpsLog, dpsTimer,
                            dps_flag)
    /\ radarLog # <<>> =>
          PropagatesFailure(FirstFailure(radarOutcome, RadarCalled),
                            RadarCalled, radar_status, radarLog, radarTimer,
                            radar_flag)

\* a step of the IMU timer's handler
ImuIsrStep == imuTicks' = imuTicks + 1

\* a step of the foreground at position p
MainAt(p) == pc = p /\ pc' # p

\* a step of the foreground's service of the audio channel, of the IMU
\* channel (main.c:143-150, 134-141)
AudioServiceStep ==
    \/ \E p \in {"pdm_test", "pdm_clear", "feed_enter", "feed", "pdm_send"} :
          MainAt(p)
    \/ pc = "feed" /\ index' # index

ImuServiceStep ==
    \E p \in {"imu_test", "imu_clear", "imu_get", "imu_send"} : MainAt(p)

\* C21: a ready-flag goes from false to true only in its own channel's
\* handler and from true to false only in the foreground's service of that
\* channel; no handler clears a flag, the foreground sets none, and a
\* handler or service of one channel leaves the other channel's flag alone.
C21_SingleWriterSingleClearer ==
    [][/\ (~pdm_pcm_flag /\ pdm_pcm_flag') => IsrStep /\ pc' = pc
       /\ (pdm_pcm_flag /\ ~pdm_pcm_flag') => MainAt("pdm_clear") /\ ~IsrStep
       /\ (~imu_flag /\ imu_flag') => ImuIsrStep /\ pc' = pc
       /\ (imu_flag /\ ~imu_flag') => MainAt("imu_clear") /\ ~ImuIsrStep
       /\ IsrStep \/ AudioServiceStep => imu_flag' = imu_flag
       /\ ImuIsrStep \/ ImuServiceStep => pdm_pcm_flag' = pdm_pcm_flag]_vars

\* C21 witness: both channels have been served at least once (set by the
\* handler, cleared by the foreground), both flags are set again, and the
\* audio handler has also found its flag already true.
C21_Witness ==
    /\ IM_ENABLE_IMU
    /\ sent # <<>>
    /\ imuSends >= 1
    /\ pdm_pcm_flag
    /\ imu_flag
    /\ anyOverrun

\* the step in which pdm_init returns success
PdmInitSucceeds ==
    pc = "pdm_init" /\ pc' # "pdm_init" /\ pdm_status' = CY_RSLT_SUCCESS

\* C22: a successful pdm_init leaves active_rx_buffer = audio_buffer0,
\* full_rx_buffer = audio_buffer1, pdm_pcm_flag false and a read armed into
\* audio_buffer0; in every later state outside the handler a read is
\* outstanding and its target is the current active_rx_buffer, never the
\* current full_rx_buffer, wherever the foreground is.
C22_ArmedOnActive ==
    /\ [][PdmInitSucceeds =>
            /\ active_rx_buffer' = B0
            /\ full_rx_buffer' = B1
            /\ pdm_pcm_flag' = FALSE
            /\ dmaTarget' = B0
            /\ dmaPos' = 0]_vars
    /\ [](PdmRunning =>
            /\ dmaTarget \in Buffers
            /\ dmaTarget = active_rx_buffer
            /\ dmaTarget # full_rx_buffer
            /\ dmaPos \in 0..FRAME_SIZE)

\* C22 witness: the buffers have been flipped, a later completion found the
\* flag still set, and while the foreground is inside the copy loop a read
\* is in progress on audio_buffer1, the active buffer.
C22_Witness ==
    /\ PdmRunning
    /\ pc = "feed"
    /\ anyOverrun
    /\ active_rx_buffer = B1
    /\ dmaTarget = B1
    /\ dmaPos >= 1

\* every sample of the frame comes from a capture (0 is the value the
\* buffers are initialised with)
Captured(frame) == \A k \in 1..Len(frame) : frame[k] >= 1

\* C23: the zero-initialised buffer is never streamed: pdm_pcm_flag stays
\* false and nothing is sent on the audio channel until the handler has run
\* for the first completed read, and every buffer the foreground copies
\* from, every sample it has copied and every frame it sends was filled by
\* a completed capture.
C23_ZeroBufferNeverStreamed ==
    /\ capture <= 1 =>
          /\ ~pdm_pcm_flag
          /\ sent = <<>>
          /\ pc \notin {"pdm_clear", "feed_enter", "feed", "pdm_send"}
    /\ \A i \in 1..Len(sent) : Captured(sent[i].frame)
    /\ pc \in {"feed_enter", "feed"} =>
          /\ full_rx_buffer \in Buffers
          /\ Captured(audio_buffer[full_rx_buffer])
    /\ pc \in {"feed", "pdm_send"} =>
          /\ FeedSource \in Buffers
          /\ Captured(audio_buffer[FeedSource])
          /\ Captured(SubSeq(transmit_pdm, 1, index))

\* C23 witness: a frame was sent whose first and last samples come from
\* different captures (the buffers were flipped during the copy); it still
\* holds no initial value.
C23_Witness ==
    /\ sent # <<>>
    /\ sent[Len(sent)].frame[1] # sent[Len(sent)].frame[FRAME_SIZE]
    /\ Captured(sent[Len(sent)].frame)

====
